---- MODULE Spec2Model ----
(***************************************************************************)
(* A model of the Hidden Markov Model value type                           *)
(* (src/src/viterbi/hidden_markov_model.py) and of Viterbi decoding        *)
(* (src/src/viterbi/viterbi_algorithm.py), driven as manage.py's solve     *)
(* drives them: construct the model (the two attrs validators, in field    *)
(* order), then decode one observation sequence.                           *)
(*                                                                         *)
(* Numbers.  The program computes in numpy.longdouble.  The model computes *)
(* in exact rationals: an array is its shape, its entries in row-major     *)
(* order as integer numerators, and the denominator den > 0 they share, so *)
(* the entry at flat index k is flat[k] / den.  Indices of bags, marbles   *)
(* and array positions are 0-based as in the program; TLA+ sequences are   *)
(* 1-based, so position i of an array is element i + 1 of its sequence.    *)
(***************************************************************************)
EXTENDS Integers, Sequences, FiniteSets, TLC

\* The longest observation sequence the decoder is given.
MaxLen == 3

\* The marbles an observation sequence is drawn from: in range, beyond the
\* last column, and negative.
MarbleValues == {-2, 0, 1, 2}

Array(shape, flat, den) == [shape |-> shape, flat |-> flat, den |-> den]

RECURSIVE SumSeq(_)
SumSeq(s) == IF s = <<>> THEN 0 ELSE Head(s) + SumSeq(Tail(s))

\* len(mat) of a numpy array: its first dimension.
NumRows(mat) == mat.shape[1]

NumCols(mat) == mat.shape[2]

\* mat[i][j] of a two-dimensional array, i and j in range.
At(mat, i, j) == mat.flat[i * NumCols(mat) + j + 1]

\* mat.sum(axis=1)[i] of a two-dimensional array.
RowSum(mat, i) == SumSeq([j \in 1..NumCols(mat) |-> At(mat, i, j - 1)])

\* The tolerance 1e-5 of the validators, as the rational num / den.
Tolerance == [num |-> 1, den |-> 100000]

\* rowSum - 1.0 > 1e-5, for the row sum rowSum / den.
ExceedsOne(rowSum, den) ==
    (rowSum - den) * Tolerance.den > Tolerance.num * den

NoError == [type |-> "None", msg |-> ""]

ValueError(msg) == [type |-> "ValueError", msg |-> msg]

IndexError(msg) == [type |-> "IndexError", msg |-> msg]

HasNegativeEntry(mat) == \E k \in 1..Len(mat.flat) : mat.flat[k] < 0

HasExcessRow(mat) ==
    \E i \in 0..(NumRows(mat) - 1) : ExceedsOne(RowSum(mat, i), mat.den)

\* A row sum off 1.0 by more than the tolerance in either direction.
OffOne(rowSum, den) == ExceedsOne(rowSum, den) \/ ExceedsOne(2 * den - rowSum, den)

\* Mutant: the stochasticity check also rejects rows that sum to less than 1.
valid_tranisition_matrix_lower_bound(mat) ==
    IF Len(mat.shape) # 2 THEN ValueError("Matrix is not two-dimensions!")
    ELSE IF mat.shape[1] # mat.shape[2] THEN ValueError("Matrix is not square!")
    ELSE IF HasNegativeEntry(mat)
        THEN ValueError("Rows include negative probabilities!")
    ELSE IF \E i \in 0..(NumRows(mat) - 1) : OffOne(RowSum(mat, i), mat.den)
        THEN ValueError("Matrix is not stochastic!")
    ELSE NoError

\* Mutant: the row sums are checked before the signs of the entries.
valid_tranisition_matrix_sums_first(mat) ==
    IF Len(mat.shape) # 2 THEN ValueError("Matrix is not two-dimensions!")
    ELSE IF mat.shape[1] # mat.shape[2] THEN ValueError("Matrix is not square!")
    ELSE IF HasExcessRow(mat) THEN ValueError("Matrix is not stochastic!")
    ELSE IF HasNegativeEntry(mat)
        THEN ValueError("Rows include negative probabilities!")
    ELSE NoError

\* The validator of the transition_matrix field: the first check that fails
\* raises, NoError when all pass.
valid_tranisition_matrix(mat) ==
    IF Len(mat.shape) # 2 THEN ValueError("Matrix is not two-dimensions!")
    ELSE IF mat.shape[1] # mat.shape[2] THEN ValueError("Matrix is not square!")
    ELSE IF HasNegativeEntry(mat)
        THEN ValueError("Rows include negative probabilities!")
    ELSE IF HasExcessRow(mat) THEN ValueError("Matrix is not stochastic!")
    ELSE NoError

\* The validator of the sampling_probabilities field; transition_matrix is
\* hmm.transition_matrix, already validated.
valid_sampling_probabilities(transition_matrix, sampling_probabilities) ==
    IF Len(transition_matrix.shape) # Len(sampling_probabilities.shape)
        THEN ValueError("Does not provide a distribution for each state!")
    ELSE IF HasNegativeEntry(sampling_probabilities)
        THEN ValueError("Distributions on marbles include negative probabilities!")
    ELSE IF HasExcessRow(sampling_probabilities)
        THEN ValueError("Not a valid distribution!")
    ELSE NoError

(***************************************************************************)
(* Linear algebra on square integer matrices, held as sequences of rows.   *)
(***************************************************************************)
RECURSIVE SumFn(_, _)
\* f[1] + ... + f[k]
SumFn(f, k) == IF k = 0 THEN 0 ELSE f[k] + SumFn(f, k - 1)

\* A without row i and column j.
Minor(A, i, j) ==
    [r \in 1..(Len(A) - 1) |->
        [c \in 1..(Len(A) - 1) |->
            A[IF r < i THEN r ELSE r + 1][IF c < j THEN c ELSE c + 1]]]

Sign(k) == IF k % 2 = 0 THEN 1 ELSE -1

RECURSIVE Det(_)
\* The determinant, by expansion along the first row.
Det(A) ==
    IF Len(A) = 0 THEN 1
    ELSE SumFn([j \in 1..Len(A) |-> Sign(1 + j) * A[1][j] * Det(Minor(A, 1, j))],
               Len(A))

\* The elements of a set of integers in increasing order.
Ascending(S) ==
    CHOOSE s \in [1..Cardinality(S) -> S] :
        \A a, b \in 1..Cardinality(S) : a < b => s[a] < s[b]

\* The rows R and columns C of A.
SubMatrix(A, R, C) ==
    LET rs == Ascending(R)
        cs == Ascending(C)
    IN  [r \in 1..Cardinality(R) |-> [c \in 1..Cardinality(C) |-> A[rs[r]][cs[c]]]]

\* The rank: the size of the largest square submatrix with a nonzero determinant.
Rank(A) ==
    LET idx == 1..Len(A)
        full(k) == \E R \in SUBSET idx : \E C \in SUBSET idx :
                      /\ Cardinality(R) = k
                      /\ Cardinality(C) = k
                      /\ Det(SubMatrix(A, R, C)) # 0
    IN  CHOOSE k \in 0..Len(A) : full(k) /\ \A l \in (k + 1)..Len(A) : ~full(l)

\* Column j of the adjugate of A: A times it is Det(A) times a unit vector,
\* so it lies in the kernel of a singular A.
AdjugateColumn(A, j) ==
    [i \in 1..Len(A) |-> Sign(i + j) * Det(Minor(A, j, i))]

\* scipy.linalg.null_space(A).  Its result is an orthonormal basis of the
\* kernel, one column per dimension; the program reads the number of
\* columns and, of a one-dimensional kernel, the basis vector, which it
\* divides by the sum of its entries.  That quotient is the same for every
\* nonzero multiple of the vector, so the model holds the basis vector as an
\* integer vector spanning the kernel, with the sign the solver may give it.
null_space(A, sign) ==
    LET dim == Len(A) - Rank(A)
        j == CHOOSE c \in 1..Len(A) :
                /\ \E i \in 1..Len(A) : AdjugateColumn(A, c)[i] # 0
                /\ \A b \in 1..(c - 1) : \A i \in 1..Len(A) : AdjugateColumn(A, b)[i] = 0
    IN  [shape |-> <<Len(A), dim>>,
         flat |-> IF dim = 1 THEN [i \in 1..Len(A) |-> sign * AdjugateColumn(A, j)[i]]
                  ELSE <<>>]

\* Mutant: the transpose is left out.
kernel_matrix_no_transpose(T) ==
    [i \in 1..NumRows(T) |->
        [j \in 1..NumRows(T) |->
            At(T, i - 1, j - 1) - (IF i = j THEN T.den ELSE 0)]]

\* (self.transition_matrix - np.identity(n)).transpose(), times the
\* transition matrix's denominator.
kernel_matrix(T) ==
    [i \in 1..NumRows(T) |->
        [j \in 1..NumRows(T) |->
            At(T, j - 1, i - 1) - (IF i = j THEN T.den ELSE 0)]]

\* What steady_state_probabilities returns for a basis it accepts.
Normalized(eigen_basis) ==
    LET steady_state_vector == eigen_basis.flat
        total == SumSeq(steady_state_vector)
    IN  [raised |-> NoError,
         flat |-> [i \in 1..Len(steady_state_vector) |->
                     IF total < 0 THEN -steady_state_vector[i]
                     ELSE steady_state_vector[i]],
         den |-> IF total < 0 THEN -total ELSE total]

NonUnique ==
    [raised |-> ValueError("HMM does not have a unique stationary distribution!"),
     flat |-> <<>>, den |-> 0]

\* Mutant: the multiplicity check is off by one.
steady_state_probabilities_off_by_one(self, sign) ==
    LET eigen_basis == null_space(kernel_matrix(self.transition_matrix), sign)
    IN  IF eigen_basis.shape[2] > 2 THEN NonUnique ELSE Normalized(eigen_basis)

\* HiddenMarkovModel.steady_state_probabilities: the error raised, or the
\* vector returned as numerators flat over the denominator den.  A vector
\* divided by a zero sum is numpy's array of nan and inf: den = 0.
steady_state_probabilities(self, sign) ==
    LET eigen_basis == null_space(kernel_matrix(self.transition_matrix), sign)
        geometric_multiplicity == eigen_basis.shape[2]
    IN  IF geometric_multiplicity > 1 THEN NonUnique ELSE Normalized(eigen_basis)

(***************************************************************************)
(* Viterbi decoding.  A probability vector of the decoder is held as the   *)
(* sequence of its numerators: after the first marble the denominator they *)
(* share is that of the steady-state vector times that of the sampling     *)
(* probabilities, and every later marble multiplies it by the transition   *)
(* matrix's and the sampling probabilities' denominators.  Comparisons     *)
(* within one vector are comparisons of numerators.                        *)
(***************************************************************************)
\* Whether index k is accepted by a numpy axis (or a list) of the given
\* size: negative indices count from the end.
InRange(k, size) == -size <= k /\ k < size

\* The position a valid index k denotes.
Position(k, size) == IF k < 0 THEN k + size ELSE k

\* hmm.sampling_probabilities.transpose()[marble], marble a valid index.
SamplingColumn(S, marble) ==
    [b \in 1..NumRows(S) |-> At(S, b - 1, Position(marble, NumCols(S)))]

\* Whether numpy can broadcast one-dimensional arrays of these lengths.
CanBroadcast(la, lb) == la = lb \/ la = 1 \/ lb = 1

\* a * b for one-dimensional arrays that broadcast.
BroadcastProduct(a, b) ==
    LET len == IF Len(a) = 1 THEN Len(b) ELSE Len(a)
    IN  [k \in 1..len |->
            a[IF Len(a) = 1 THEN 1 ELSE k] * b[IF Len(b) = 1 THEN 1 ELSE k]]

\* np.argmax of a non-empty vector: the first position of its maximum.
ArgMax(probs) ==
    CHOOSE k \in 0..(Len(probs) - 1) :
        /\ \A l \in 0..(Len(probs) - 1) : probs[l + 1] <= probs[k + 1]
        /\ \A l \in 0..(k - 1) : probs[l + 1] < probs[k + 1]

RECURSIVE ScanParents(_, _, _, _, _)
\* The loop over enumerate(probabilities) from parent candidate k on, acc
\* holding max_parent_probability and most_likely_parent so far.
ScanParents(probs, T, bag, k, acc) ==
    IF k >= Len(probs) THEN acc
    ELSE LET p == probs[k + 1] * At(T, k, bag)
         IN  ScanParents(probs, T, bag, k + 1,
                         IF p > acc.max_parent_probability
                         THEN [max_parent_probability |-> p, most_likely_parent |-> k]
                         ELSE acc)

\* Mutant: the parent is the most probable one so far, whatever its
\* transition to bag.
MostLikelyParent_ignores_transition(probs, T, bag) ==
    IF probs = <<>> \/ \A k \in 1..Len(probs) : probs[k] <= 0
    THEN [max_parent_probability |-> 0, most_likely_parent |-> 0]
    ELSE [max_parent_probability |-> probs[ArgMax(probs) + 1] * At(T, ArgMax(probs), bag),
          most_likely_parent |-> ArgMax(probs)]

\* The most likely parent of bag and its probability: the running maximum
\* starts at 0.0 with parent 0 as the placeholder.
MostLikelyParent(probs, T, bag) ==
    ScanParents(probs, T, bag, 0,
                [max_parent_probability |-> 0, most_likely_parent |-> 0])

\* What one pass of the loop over the bags raises for one bag, NoError when
\* it raises nothing: transition_matrix[parent_candidate] is indexed for
\* every entry of probabilities, then sampling_probabilities[bag][marble].
BagError(self, probs, bag, marble) ==
    IF Len(probs) > NumRows(self.transition_matrix)
        THEN IndexError("transition_matrix[parent_candidate]")
    ELSE IF ~InRange(bag, NumRows(self.sampling_probabilities))
        THEN IndexError("sampling_probabilities[bag]")
    ELSE IF ~InRange(marble, NumCols(self.sampling_probabilities))
        THEN IndexError("sampling_probabilities[bag][marble]")
    ELSE NoError

\* What the loop over the bags raises: the error of the first bag that
\* raises one.
MarbleError(self, probs, marble) ==
    LET num_bags == NumRows(self.transition_matrix)
        bad == {bag \in 0..(num_bags - 1) : BagError(self, probs, bag, marble) # NoError}
    IN  IF bad = {} THEN NoError
        ELSE BagError(self, probs, CHOOSE b \in bad : \A c \in bad : b <= c, marble)

\* new_probabilities[bag] of one marble.
NewProbability(self, probs, bag, marble) ==
    MostLikelyParent(probs, self.transition_matrix, bag).max_parent_probability
        * At(self.sampling_probabilities, bag,
             Position(marble, NumCols(self.sampling_probabilities)))

RECURSIVE ParentsBack(_, _)
\* What the loop over reversed(parents) appends to rev_path: the parents
\* from the last marble back to the second.
ParentsBack(parents, last_visited_bag) ==
    IF parents = <<>> THEN <<>>
    ELSE LET parent == parents[Len(parents)][last_visited_bag + 1]
         IN  <<parent>> \o ParentsBack(SubSeq(parents, 1, Len(parents) - 1), parent)

\* Mutant: rev_path starts empty, the end bag is not emitted.
ReversePath_without_end(parents, last_visited_bag) ==
    ParentsBack(parents, last_visited_bag)

\* rev_path after the loop: the most likely end bag, then its ancestors.
ReversePath(parents, last_visited_bag) ==
    <<last_visited_bag>> \o ParentsBack(parents, last_visited_bag)

RECURSIVE BacktraceFails(_, _)
\* Whether parent_array[last_visited_bag] is out of range somewhere on the
\* way back.
BacktraceFails(parents, last_visited_bag) ==
    IF parents = <<>> THEN FALSE
    ELSE \/ ~InRange(last_visited_bag, Len(parents[Len(parents)]))
         \/ BacktraceFails(SubSeq(parents, 1, Len(parents) - 1),
                           parents[Len(parents)][last_visited_bag + 1])

Reverse(s) == [k \in 1..Len(s) |-> s[Len(s) + 1 - k]]

\* The observation sequences handed to the decoder, the empty one among them.
ObservationSequences == UNION {[1..k -> MarbleValues] : k \in 0..MaxLen}

(***************************************************************************)
(* The candidate matrices a caller hands to the constructor.               *)
(***************************************************************************)
TransitionCandidates ==
    { Array(<<2, 2>>, <<8, 2, 5, 5>>, 10),
      Array(<<2, 2>>, <<10, 0, 0, 10>>, 10),
      Array(<<1, 1>>, <<5>>, 10),
      Array(<<1, 1>>, <<10>>, 10),
      Array(<<1, 1>>, <<0>>, 10),
      Array(<<2, 2>>, <<10, 0, 5, 5>>, 10),
      Array(<<2, 2>>, <<0, 10, 10, 0>>, 10),
      Array(<<2, 2>>, <<8, 1, 5, 5>>, 10),
      Array(<<3, 3>>, <<4, 4, 2, 2, 4, 4, 1, 3, 6>>, 10),
      Array(<<1, 1>>, <<200001>>, 200000),
      Array(<<1, 1>>, <<200004>>, 200000),
      Array(<<2>>, <<5, 5>>, 10),
      Array(<<2, 3>>, <<8, 1, 1, 5, 4, 1>>, 10),
      Array(<<2, 3>>, <<8, -4, 6, 5, 4, 1>>, 10),
      Array(<<2, 2>>, <<-2, 15, 5, 5>>, 10),
      Array(<<2, 2>>, <<8, 5, 5, 5>>, 10),
      Array(<<2, 2>>, <<-5, 15, 5, 5>>, 10) }

SamplingCandidates ==
    { Array(<<2, 2>>, <<4, 6, 7, 3>>, 10),
      Array(<<3, 1>>, <<10, 10, 10>>, 10),
      Array(<<1, 1>>, <<10>>, 10),
      Array(<<1, 2>>, <<4, 6>>, 10),
      Array(<<2, 2>>, <<10, 0, 0, 10>>, 10),
      Array(<<2, 2>>, <<4, 6, 7, 2>>, 10),
      Array(<<3, 2>>, <<4, 6, 7, 3, 5, 5>>, 10),
      Array(<<2>>, <<-4, 6>>, 10),
      Array(<<2, 2>>, <<4, 6, 13, -3>>, 10),
      Array(<<2, 2>>, <<8, 5, 4, 6>>, 10),
      Array(<<2, 2>>, <<-2, 15, 4, 6>>, 10),
      Array(<<1, 1>>, <<200004>>, 200000) }

VARIABLES
    transition_matrix,      \* the candidate handed to the constructor
    sampling_probabilities, \* the candidate handed to the constructor
    hmm,                    \* the constructed HiddenMarkovModel, or NoModel
    pc,                     \* where the run stands
    error,                  \* the exception raised, NoError when none
    steady,                 \* what a call of steady_state_probabilities returned
    sequence,               \* viterbi's argument
    probabilities,          \* viterbi's probabilities (numerators)
    parents_by_marble,      \* viterbi's parents_by_marble
    done,                   \* the passes of viterbi's loop over sequence[1:] completed
    path,                   \* what viterbi returned
    steady_calls,           \* how often viterbi has called steady_state_probabilities
    consulted,              \* the positions of sequence viterbi has used as an index, in order
    other                   \* a second call of viterbi on the same model

vars == <<transition_matrix, sampling_probabilities, hmm, pc, error, steady,
          sequence, probabilities, parents_by_marble, done, path,
          steady_calls, consulted, other>>

history == <<steady_calls, consulted>>

candidates == <<transition_matrix, sampling_probabilities>>

locals == <<probabilities, parents_by_marble, done>>

NoModel == [constructed |-> FALSE]

NoVector == [raised |-> NoError, flat |-> <<>>, den |-> 0]

\* The second call before it is made: its position, its argument, its
\* locals and its result.
NotCalled ==
    [pc |-> "not_called", error |-> NoError, sequence |-> <<>>,
     probabilities |-> <<>>, parents_by_marble |-> <<>>, done |-> 0, path |-> <<>>]

Init ==
    /\ transition_matrix \in TransitionCandidates
    /\ sampling_probabilities \in SamplingCandidates
    /\ hmm = NoModel
    /\ pc = "valid_tranisition_matrix"
    /\ error = NoError
    /\ steady = NoVector
    /\ sequence = <<>>
    /\ probabilities = <<>>
    /\ parents_by_marble = <<>>
    /\ done = 0
    /\ path = <<>>
    /\ steady_calls = 0
    /\ consulted = <<>>
    /\ other = NotCalled

\* HiddenMarkovModel(...): the validator of the first field.
ValidateTransitionMatrix ==
    /\ pc = "valid_tranisition_matrix"
    /\ LET e == valid_tranisition_matrix(transition_matrix) IN
        /\ error' = e
        /\ pc' = IF e = NoError THEN "valid_sampling_probabilities" ELSE "rejected"
    /\ UNCHANGED <<candidates, hmm, steady, sequence, locals, path, history, other>>

\* HiddenMarkovModel(...): the validator of the second field; the object
\* exists once it has passed.
ValidateSamplingProbabilities ==
    /\ pc = "valid_sampling_probabilities"
    /\ LET e == valid_sampling_probabilities(transition_matrix,
                                             sampling_probabilities) IN
        /\ error' = e
        /\ pc' = IF e = NoError THEN "constructed" ELSE "rejected"
        /\ hmm' = IF e = NoError
                  THEN [constructed |-> TRUE,
                        transition_matrix |-> transition_matrix,
                        sampling_probabilities |-> sampling_probabilities]
                  ELSE NoModel
    /\ UNCHANGED <<candidates, steady, sequence, locals, path, history, other>>

\* hmm.steady_state_probabilities(), called by itself.
SteadyStateCall ==
    /\ pc = "constructed"
    /\ \E sign \in {1, -1} :
        LET r == steady_state_probabilities(hmm, sign) IN
        /\ steady' = r
        /\ error' = r.raised
        /\ pc' = IF r.raised = NoError THEN "steady_returned" ELSE "steady_raised"
    /\ UNCHANGED <<candidates, hmm, sequence, locals, path, history, other>>

\* viterbi(hmm, sequence), sequence one of seqs, up to the check of the
\* empty sequence.
ViterbiCallWith(seqs) ==
    /\ pc = "constructed"
    /\ \E s \in seqs :
        /\ sequence' = s
        /\ IF s = <<>>
           THEN /\ error' = ValueError("Cannot provide empty sequence of events!")
                /\ pc' = "raised"
           ELSE /\ error' = NoError
                /\ pc' = "first_marble"
    /\ UNCHANGED <<candidates, hmm, steady, locals, path, history, other>>

\* Mutant: the empty sequence is checked after the steady-state
\* probabilities have been computed.
ViterbiCall_checks_late ==
    /\ pc = "constructed"
    /\ \E s \in ObservationSequences : \E sign \in {1, -1} :
        /\ sequence' = s
        /\ IF s = <<>>
           THEN /\ error' = IF steady_state_probabilities(hmm, sign).raised # NoError
                             THEN steady_state_probabilities(hmm, sign).raised
                             ELSE ValueError("Cannot provide empty sequence of events!")
                /\ pc' = "raised"
                /\ steady_calls' = steady_calls + 1
           ELSE /\ error' = NoError
                /\ pc' = "first_marble"
                /\ UNCHANGED steady_calls
    /\ UNCHANGED <<candidates, hmm, steady, locals, path, consulted, other>>

ViterbiCall == ViterbiCallWith(ObservationSequences)

\* sampling_probabilities after the column of marble has been multiplied
\* in place by the vector w.
ColumnScaled(S, marble, w) ==
    LET column == Position(marble, NumCols(S)) IN
    Array(S.shape,
          [k \in 1..Len(S.flat) |->
              IF (k - 1) % NumCols(S) = column
              THEN w.flat[((k - 1) \div NumCols(S)) + 1] * S.flat[k]
              ELSE w.den * S.flat[k]],
          w.den * S.den)

\* The initial probability vector: the steady-state probabilities, then the
\* column of the first marble, then their product.
\* Mutant: the product is formed in place, in the column of the model's
\* sampling_probabilities that transpose()[first_marble] is a view of.
ViterbiFirstMarble_in_place ==
    /\ pc = "first_marble"
    /\ steady_calls' = steady_calls + 1
    /\ \E sign \in {1, -1} :
        LET first_marble == sequence[1]
            w == steady_state_probabilities(hmm, sign)
            S == hmm.sampling_probabilities
        IN  IF w.raised # NoError
            THEN /\ error' = w.raised
                 /\ pc' = "raised"
                 /\ UNCHANGED <<probabilities, consulted, hmm>>
            ELSE IF ~InRange(first_marble, NumCols(S))
            THEN /\ error' = IndexError("sampling_probabilities.transpose()[first_marble]")
                 /\ pc' = "raised"
                 /\ consulted' = Append(consulted, 0)
                 /\ UNCHANGED <<probabilities, hmm>>
            ELSE IF ~CanBroadcast(Len(w.flat), NumRows(S))
            THEN /\ error' = ValueError("operands could not be broadcast together")
                 /\ pc' = "raised"
                 /\ consulted' = Append(consulted, 0)
                 /\ UNCHANGED <<probabilities, hmm>>
            ELSE /\ probabilities' = BroadcastProduct(w.flat, SamplingColumn(S, first_marble))
                 /\ hmm' = IF Len(w.flat) = NumRows(S)
                            THEN [hmm EXCEPT !.sampling_probabilities =
                                                ColumnScaled(S, first_marble, w)]
                            ELSE hmm
                 /\ pc' = "loop"
                 /\ consulted' = Append(consulted, 0)
                 /\ UNCHANGED error
    /\ UNCHANGED <<candidates, steady, sequence, parents_by_marble, done, path, other>>

ViterbiFirstMarble ==
    /\ pc = "first_marble"
    /\ steady_calls' = steady_calls + 1
    /\ \E sign \in {1, -1} :
        LET first_marble == sequence[1]
            w == steady_state_probabilities(hmm, sign)
            S == hmm.sampling_probabilities
        IN  IF w.raised # NoError
            THEN /\ error' = w.raised
                 /\ pc' = "raised"
                 /\ UNCHANGED <<probabilities, consulted>>
            ELSE IF ~InRange(first_marble, NumCols(S))
            THEN /\ error' = IndexError("sampling_probabilities.transpose()[first_marble]")
                 /\ pc' = "raised"
                 /\ consulted' = Append(consulted, 0)
                 /\ UNCHANGED probabilities
            ELSE IF ~CanBroadcast(Len(w.flat), NumRows(S))
            THEN /\ error' = ValueError("operands could not be broadcast together")
                 /\ pc' = "raised"
                 /\ consulted' = Append(consulted, 0)
                 /\ UNCHANGED probabilities
            ELSE /\ probabilities' = BroadcastProduct(w.flat, SamplingColumn(S, first_marble))
                 /\ pc' = "loop"
                 /\ consulted' = Append(consulted, 0)
                 /\ UNCHANGED error
    /\ UNCHANGED <<candidates, hmm, steady, sequence, parents_by_marble, done, path, other>>

\* One pass of the loop over sequence[1:].
ViterbiMarble ==
    /\ pc = "loop"
    /\ done < Len(sequence) - 1
    /\ LET marble == sequence[done + 2]
           num_bags == NumRows(hmm.transition_matrix)
           e == MarbleError(hmm, probabilities, marble)
       IN  IF e # NoError
           THEN /\ error' = e
                /\ pc' = "raised"
                /\ UNCHANGED locals
                /\ consulted' = IF e = IndexError("transition_matrix[parent_candidate]")
                                 THEN consulted
                                 ELSE Append(consulted, done + 1)
           ELSE /\ probabilities' =
                       [b \in 1..num_bags |->
                           NewProbability(hmm, probabilities, b - 1, marble)]
                /\ parents_by_marble' = Append(parents_by_marble,
                       [b \in 1..num_bags |->
                           MostLikelyParent(probabilities, hmm.transition_matrix,
                                            b - 1).most_likely_parent])
                /\ done' = done + 1
                /\ consulted' = Append(consulted, done + 1)
                /\ UNCHANGED <<pc, error>>
    /\ UNCHANGED <<candidates, hmm, steady, sequence, path, steady_calls, other>>

\* The most likely end bag and the path back from it.
ViterbiReturn ==
    /\ pc = "loop"
    /\ done = Len(sequence) - 1
    /\ IF probabilities = <<>>
       THEN /\ error' = ValueError("attempt to get argmax of an empty sequence")
            /\ pc' = "raised"
            /\ UNCHANGED path
       ELSE LET most_likely_end_bag == ArgMax(probabilities) IN
            IF BacktraceFails(parents_by_marble, most_likely_end_bag)
            THEN /\ error' = IndexError("parent_array[last_visited_bag]")
                 /\ pc' = "raised"
                 /\ UNCHANGED path
            ELSE /\ path' = Reverse(ReversePath(parents_by_marble, most_likely_end_bag))
                 /\ pc' = "returned"
                 /\ UNCHANGED error
    /\ UNCHANGED <<candidates, hmm, steady, sequence, locals, history, other>>

Next ==
    \/ ValidateTransitionMatrix
    \/ ValidateSamplingProbabilities
    \/ SteadyStateCall
    \/ ViterbiCall
    \/ ViterbiFirstMarble
    \/ ViterbiMarble
    \/ ViterbiReturn

Spec == Init /\ [][Next]_vars

(***************************************************************************)
(* Two calls of viterbi on one model, their steps interleaved.  The first  *)
(* call is the one above; the second keeps its argument, its locals and    *)
(* its result in the record other.  A call has no lock and no await: any   *)
(* step of one call may come between two steps of the other.               *)
(***************************************************************************)
ParLen == 2

ParMarbles == {0, 1, 2}

ParSequences == UNION {[1..k -> ParMarbles] : k \in 0..ParLen}

\* The transition matrices of the interleaved calls: the examples of the
\* tests and a matrix with an empty null space.
ParTransitionCandidates ==
    { Array(<<2, 2>>, <<8, 2, 5, 5>>, 10),
      Array(<<2, 2>>, <<10, 0, 0, 10>>, 10),
      Array(<<1, 1>>, <<5>>, 10) }

ParSamplingCandidates ==
    { Array(<<2, 2>>, <<4, 6, 7, 3>>, 10),
      Array(<<1, 2>>, <<4, 6>>, 10) }

InitPar ==
    /\ Init
    /\ transition_matrix \in ParTransitionCandidates
    /\ sampling_probabilities \in ParSamplingCandidates

\* viterbi(hmm, sequence) of the second call, up to the check of the empty
\* sequence.
OtherCall ==
    /\ hmm # NoModel
    /\ other.pc = "not_called"
    /\ \E s \in ParSequences :
        other' = IF s = <<>>
                 THEN [other EXCEPT
                         !.sequence = s,
                         !.error = ValueError("Cannot provide empty sequence of events!"),
                         !.pc = "raised"]
                 ELSE [other EXCEPT !.sequence = s, !.pc = "first_marble"]
    /\ UNCHANGED <<candidates, hmm, pc, error, steady, sequence, locals, path, history>>

\* The initial probability vector of the second call.
OtherFirstMarble ==
    /\ other.pc = "first_marble"
    /\ \E sign \in {1, -1} :
        LET first_marble == other.sequence[1]
            w == steady_state_probabilities(hmm, sign)
            S == hmm.sampling_probabilities
        IN  other' =
              IF w.raised # NoError
              THEN [other EXCEPT !.error = w.raised, !.pc = "raised"]
              ELSE IF ~InRange(first_marble, NumCols(S))
              THEN [other EXCEPT
                      !.error = IndexError("sampling_probabilities.transpose()[first_marble]"),
                      !.pc = "raised"]
              ELSE IF ~CanBroadcast(Len(w.flat), NumRows(S))
              THEN [other EXCEPT
                      !.error = ValueError("operands could not be broadcast together"),
                      !.pc = "raised"]
              ELSE [other EXCEPT
                      !.probabilities =
                          BroadcastProduct(w.flat, SamplingColumn(S, first_marble)),
                      !.pc = "loop"]
    /\ UNCHANGED <<candidates, hmm, pc, error, steady, sequence, locals, path, history>>

\* One pass of the loop over sequence[1:] of the second call.
OtherMarble ==
    /\ other.pc = "loop"
    /\ other.done < Len(other.sequence) - 1
    /\ LET marble == other.sequence[other.done + 2]
           num_bags == NumRows(hmm.transition_matrix)
           e == MarbleError(hmm, other.probabilities, marble)
       IN  other' =
             IF e # NoError
             THEN [other EXCEPT !.error = e, !.pc = "raised"]
             ELSE [other EXCEPT
                     !.probabilities =
                         [b \in 1..num_bags |->
                             NewProbability(hmm, other.probabilities, b - 1, marble)],
                     !.parents_by_marble = Append(other.parents_by_marble,
                         [b \in 1..num_bags |->
                             MostLikelyParent(other.probabilities, hmm.transition_matrix,
                                              b - 1).most_likely_parent]),
                     !.done = other.done + 1]
    /\ UNCHANGED <<candidates, hmm, pc, error, steady, sequence, locals, path, history>>

\* The most likely end bag of the second call and the path back from it.
OtherReturn ==
    /\ other.pc = "loop"
    /\ other.done = Len(other.sequence) - 1
    /\ other' =
          IF other.probabilities = <<>>
          THEN [other EXCEPT
                  !.error = ValueError("attempt to get argmax of an empty sequence"),
                  !.pc = "raised"]
          ELSE LET most_likely_end_bag == ArgMax(other.probabilities) IN
               IF BacktraceFails(other.parents_by_marble, most_likely_end_bag)
               THEN [other EXCEPT
                       !.error = IndexError("parent_array[last_visited_bag]"),
                       !.pc = "raised"]
               ELSE [other EXCEPT
                       !.path = Reverse(ReversePath(other.parents_by_marble,
                                                    most_likely_end_bag)),
                       !.pc = "returned"]
    /\ UNCHANGED <<candidates, hmm, pc, error, steady, sequence, locals, path, history>>

NextPar ==
    \/ ValidateTransitionMatrix
    \/ ValidateSamplingProbabilities
    \/ ViterbiCallWith(ParSequences)
    \/ ViterbiFirstMarble
    \/ ViterbiMarble
    \/ ViterbiReturn
    \/ OtherCall
    \/ OtherFirstMarble
    \/ OtherMarble
    \/ OtherReturn

SpecPar == InitPar /\ [][NextPar]_vars

(***************************************************************************)
(* The properties checked.                                                 *)
(***************************************************************************)
Constructing == pc \in {"valid_tranisition_matrix", "valid_sampling_probabilities"}

\* viterbi has returned or raised past the check of the empty sequence.
Decoded == pc \in {"returned", "raised"} /\ sequence # <<>>

SteadyCalled == pc \in {"steady_returned", "steady_raised"}

\* The dimension of the kernel of (transition_matrix - I)^T.
Multiplicity(T) == NumRows(T) - Rank(kernel_matrix(T))

\* rowSum / den <= 1 + 1e-5
WithinOne(rowSum, den) == (rowSum - den) * 100000 <= den

IsTwoDimensional(mat) == Len(mat.shape) = 2

IsSquare(mat) == IsTwoDimensional(mat) /\ mat.shape[1] = mat.shape[2]

NonNegative(mat) == \A k \in 1..Len(mat.flat) : mat.flat[k] >= 0

RowsWithinOne(mat) ==
    \A i \in 0..(NumRows(mat) - 1) : WithinOne(RowSum(mat, i), mat.den)

RECURSIVE JointFrom(_, _, _, _)
\* The product over t >= k of T[x(t-1)][x(t)] * E[x(t)][o(t)] (numerators;
\* x, o and k are 1-based).
JointFrom(self, x, o, k) ==
    IF k > Len(o) THEN 1
    ELSE At(self.transition_matrix, x[k - 1], x[k])
            * At(self.sampling_probabilities, x[k], o[k])
            * JointFrom(self, x, o, k + 1)

\* The joint probability of the state sequence x and the observations o
\* (its numerator: the denominator depends on the length of o alone).
Joint(self, w, x, o) ==
    w.flat[x[1] + 1] * At(self.sampling_probabilities, x[1], o[1])
        * JointFrom(self, x, o, 2)

\* The case of C1: one sampling row per bag, a unique steady state, every
\* marble a column of the sampling probabilities.
Decodable ==
    /\ NumRows(hmm.sampling_probabilities) = NumRows(hmm.transition_matrix)
    /\ Multiplicity(hmm.transition_matrix) = 1

MarblesInRange ==
    \A k \in 1..Len(sequence) :
        0 <= sequence[k] /\ sequence[k] < NumCols(hmm.sampling_probabilities)

\* C1: the path viterbi returns for a model with one sampling row per bag and
\* a unique steady state, on marbles that are all columns of the sampling
\* probabilities, has the largest joint probability of all state sequences of
\* that length.
C1_PathIsMostLikely ==
    (pc = "returned" /\ Decodable /\ MarblesInRange) =>
        LET n == NumRows(hmm.transition_matrix)
            w == steady_state_probabilities(hmm, 1)
        IN  /\ \A k \in 1..Len(path) : path[k] \in 0..(n - 1)
            /\ \A x \in [1..Len(sequence) -> 0..(n - 1)] :
                  Joint(hmm, w, x, sequence) <= Joint(hmm, w, path, sequence)

\* A path of positive probability that changes bag.
C1_Witness ==
    /\ pc = "returned" /\ Decodable /\ MarblesInRange
    /\ Len(path) = 3
    /\ path[1] # path[2]
    /\ Joint(hmm, steady_state_probabilities(hmm, 1), path, sequence) > 0
    /\ \E k \in 1..Len(probabilities) : probabilities[k] = 0

\* C2: every element of a returned path is a bag of the model, an index in
\* [0, n) for n the number of rows of the transition matrix.
C2_PathInRange ==
    pc = "returned" =>
        \A k \in 1..Len(path) : path[k] \in 0..(NumRows(hmm.transition_matrix) - 1)

\* C3: a returned path has one element per marble: the loop records one row
\* of parents per marble after the first, and the walk back emits one bag
\* per row and the end bag.
C3_PathLength ==
    /\ pc = "loop" => Len(parents_by_marble) = done
    /\ pc = "returned" =>
        /\ Len(parents_by_marble) = Len(sequence) - 1
        /\ Len(path) = Len(sequence)

\* A path returned for three marbles by a decodable model.
C3_Witness ==
    /\ pc = "returned" /\ Decodable /\ MarblesInRange
    /\ Len(sequence) = 3 /\ Len(path) = 3 /\ Len(parents_by_marble) = 2

\* C4: for a decodable model, a sequence with a marble outside [0, m),
\* negative or not less than m, makes viterbi raise IndexError and return
\* no path.
C4_OutOfRangeRaises ==
    (Decoded /\ Decodable /\ ~MarblesInRange) =>
        pc = "raised" /\ error.type = "IndexError" /\ path = <<>>

\* C5: a constructed model has one row of sampling probabilities per row of
\* its transition matrix.
C5_OneRowPerBag ==
    hmm.constructed =>
        NumRows(hmm.sampling_probabilities) = NumRows(hmm.transition_matrix)

C7_NoSteadyStateRaises ==
    (SteadyCalled /\ Det(kernel_matrix(hmm.transition_matrix)) # 0) =>
        pc = "steady_raised"

\* C8: when the kernel of (transition_matrix - I)^T has dimension above 1,
\* steady_state_probabilities raises the error of a non-unique stationary
\* distribution, and so does viterbi on any non-empty sequence, which
\* returns no path.
C8_NonUniqueRaises ==
    /\ (SteadyCalled /\ Multiplicity(hmm.transition_matrix) > 1) =>
          /\ pc = "steady_raised"
          /\ error = ValueError("HMM does not have a unique stationary distribution!")
          /\ steady.flat = <<>>
    /\ (Decoded /\ Multiplicity(hmm.transition_matrix) > 1) =>
          /\ pc = "raised"
          /\ error = ValueError("HMM does not have a unique stationary distribution!")
          /\ path = <<>>
    /\ (pc = "loop") => Multiplicity(hmm.transition_matrix) <= 1

\* viterbi raised it for the identity matrix, out-of-range first marble or not.
C8_Witness ==
    /\ Decoded
    /\ hmm.transition_matrix = Array(<<2, 2>>, <<10, 0, 0, 10>>, 10)
    /\ error = ValueError("HMM does not have a unique stationary distribution!")
    /\ sequence[1] = 2

TransitionPasses ==
    /\ IsSquare(transition_matrix)
    /\ NonNegative(transition_matrix)
    /\ RowsWithinOne(transition_matrix)

\* C10: the error of a rejected pair is that of the first check it fails, in
\* the order: transition matrix two-dimensional and square, its entries, its
\* row sums, the dimensions of the sampling probabilities, their entries,
\* their row sums.  The sampling probabilities are not checked before the
\* transition matrix has passed, and a rejected pair leaves no model.
C10_FirstFailedCheck ==
    /\ pc = "valid_sampling_probabilities" => TransitionPasses
    /\ Constructing => hmm = NoModel
    /\ ~Constructing =>
        /\ ~IsTwoDimensional(transition_matrix) =>
              /\ pc = "rejected"
              /\ error = ValueError("Matrix is not two-dimensions!")
        /\ (IsTwoDimensional(transition_matrix) /\ ~IsSquare(transition_matrix)) =>
              /\ pc = "rejected"
              /\ error = ValueError("Matrix is not square!")
        /\ (IsSquare(transition_matrix) /\ ~NonNegative(transition_matrix)) =>
              /\ pc = "rejected"
              /\ error = ValueError("Rows include negative probabilities!")
        /\ (/\ IsSquare(transition_matrix)
            /\ NonNegative(transition_matrix)
            /\ ~RowsWithinOne(transition_matrix)) =>
              /\ pc = "rejected"
              /\ error = ValueError("Matrix is not stochastic!")
        /\ (TransitionPasses /\ ~IsTwoDimensional(sampling_probabilities)) =>
              /\ pc = "rejected"
              /\ error = ValueError("Does not provide a distribution for each state!")
        /\ (/\ TransitionPasses
            /\ IsTwoDimensional(sampling_probabilities)
            /\ ~NonNegative(sampling_probabilities)) =>
              /\ pc = "rejected"
              /\ error = ValueError("Distributions on marbles include negative probabilities!")
        /\ (/\ TransitionPasses
            /\ IsTwoDimensional(sampling_probabilities)
            /\ NonNegative(sampling_probabilities)
            /\ ~RowsWithinOne(sampling_probabilities)) =>
              /\ pc = "rejected"
              /\ error = ValueError("Not a valid distribution!")
        /\ pc = "rejected" => hmm = NoModel /\ error # NoError

\* A transition matrix with a negative entry and a row sum above 1, handed
\* over with sampling probabilities that fail checks of their own.
C10_Witness ==
    /\ pc = "rejected"
    /\ transition_matrix = Array(<<2, 2>>, <<-2, 15, 5, 5>>, 10)
    /\ sampling_probabilities = Array(<<2, 2>>, <<-2, 15, 4, 6>>, 10)
    /\ error = ValueError("Rows include negative probabilities!")

\* C11: viterbi(hmm, []) raises the error of the empty sequence whatever the
\* constructed model is, and nothing of viterbi has run by then: the
\* steady-state probabilities have not been computed, there is no
\* probability vector and no parent array, no position of the sequence has
\* been used, and every call that goes past the check has a non-empty
\* sequence.
C11_EmptySequenceFirst ==
    /\ (pc \in {"raised", "returned"} /\ sequence = <<>>) =>
          /\ pc = "raised"
          /\ error = ValueError("Cannot provide empty sequence of events!")
          /\ steady_calls = 0
          /\ consulted = <<>>
          /\ probabilities = <<>>
          /\ parents_by_marble = <<>>
          /\ done = 0
          /\ path = <<>>
    /\ pc \in {"first_marble", "loop", "returned"} => sequence # <<>>
    /\ steady_calls > 0 => sequence # <<>>

\* The empty sequence on the model of the identity matrix, which has no
\* unique stationary distribution.
C11_Witness ==
    /\ pc = "raised"
    /\ sequence = <<>>
    /\ hmm # NoModel
    /\ hmm.transition_matrix = Array(<<2, 2>>, <<10, 0, 0, 10>>, 10)
    /\ Multiplicity(hmm.transition_matrix) = 2
    /\ error = ValueError("Cannot provide empty sequence of events!")

Finished == pc \in {"returned", "raised"}

OtherFinished == other.pc \in {"returned", "raised"}

\* C12: two calls of viterbi on one model with the same sequence end alike,
\* both with the same path or both with the same error, however their steps
\* are interleaved with each other; and no step of any call, whether the
\* call ends with a path or with an error, changes the model or the arrays
\* it was constructed from.
C12_Deterministic ==
    /\ []((Finished /\ OtherFinished /\ sequence = other.sequence) =>
             /\ pc = other.pc
             /\ error = other.error
             /\ path = other.path)
    /\ [][hmm # NoModel =>
             /\ hmm' = hmm
             /\ transition_matrix' = transition_matrix
             /\ sampling_probabilities' = sampling_probabilities]_vars

\* Both calls have returned the same path for the same two marbles on the
\* model of the tests.
C12_Witness ==
    /\ pc = "returned"
    /\ other.pc = "returned"
    /\ sequence = other.sequence
    /\ Len(sequence) = 2
    /\ path = other.path
    /\ Len(path) = 2
    /\ hmm.transition_matrix = Array(<<2, 2>>, <<8, 2, 5, 5>>, 10)
    /\ hmm.sampling_probabilities = Array(<<2, 2>>, <<4, 6, 7, 3>>, 10)

\* probabilities[parent] * transition_matrix[parent][bag] before the pass.
ParentProduct(parent, bag) ==
    probabilities[parent + 1] * At(hmm.transition_matrix, parent, bag)

\* A pass of the loop over sequence[1:] that went through all the bags.
PassCompleted == pc = "loop" /\ done' = done + 1

\* What a completed pass has recorded for bag: the parent is the lowest
\* index with the largest product (index 0 when every product is 0), and the
\* new probability is that product times the bag's probability of the marble.
LowestParentRecorded(bag) ==
    LET parent == parents_by_marble'[done'][bag + 1]
        parents == 0..(Len(probabilities) - 1)
        marble == sequence[done + 2]
        S == hmm.sampling_probabilities
    IN  /\ parent \in parents
        /\ \A q \in parents : ParentProduct(q, bag) <= ParentProduct(parent, bag)
        /\ \A q \in parents : q < parent => ParentProduct(q, bag) < ParentProduct(parent, bag)
        /\ (\A q \in parents : ParentProduct(q, bag) = 0) => parent = 0
        /\ probabilities'[bag + 1] =
              ParentProduct(parent, bag) * At(S, bag, Position(marble, NumCols(S)))

\* The last bag of a returned path is the lowest index with the largest
\* final probability.
LowestEndBag ==
    pc = "returned" =>
        LET last == path[Len(path)] IN
        /\ last \in 0..(Len(probabilities) - 1)
        /\ \A b \in 1..Len(probabilities) : probabilities[b] <= probabilities[last + 1]
        /\ \A b \in 1..last : probabilities[b] < probabilities[last + 1]

\* C13: ties go to the lowest index.  In every completed pass over marbles
\* that are columns of the sampling probabilities, for every bag, the
\* recorded parent is the lowest index p of the previous vector with the
\* largest probabilities[p] * transition_matrix[p][bag], it is 0 when all
\* these products are 0, and the stored probability is that parent's
\* product times sampling_probabilities[bag][marble]; the end bag is the
\* lowest index with the largest final probability.
C13_LowestIndexTies ==
    /\ [][(PassCompleted /\ MarblesInRange) =>
             \A bag \in 0..(NumRows(hmm.transition_matrix) - 1) :
                 LowestParentRecorded(bag)]_vars
    /\ []LowestEndBag

\* What does hold of ties: the same statement for the passes that start
\* from a vector with an entry for every bag, whatever the marbles.  The
\* passes left out start from the empty vector that the steady-state
\* probabilities of a matrix with a trivial kernel give.
C13_LowestIndexTiesOfFullVectors ==
    /\ [][(PassCompleted /\ Len(probabilities) = NumRows(hmm.transition_matrix)) =>
             \A bag \in 0..(NumRows(hmm.transition_matrix) - 1) :
                 LowestParentRecorded(bag)]_vars
    /\ []LowestEndBag

\* The positions, counted from 0, of the marbles that are no index of a
\* column of the sampling probabilities.
NoColumn ==
    {t \in 0..(Len(sequence) - 1) :
        ~InRange(sequence[t + 1], NumCols(hmm.sampling_probabilities))}

Earliest(positions) == CHOOSE t \in positions : \A u \in positions : t <= u

NonNegativeMarbles == \A k \in 1..Len(sequence) : sequence[k] >= 0

\* The call failed when it reached position t and not before: the initial
\* vector and the passes of positions 1..t-1 are done, position t raised
\* IndexError, and no later position was used.
FailedAt(t) ==
    /\ pc = "raised"
    /\ error.type = "IndexError"
    /\ path = <<>>
    /\ consulted = [k \in 1..(t + 1) |-> k - 1]
    /\ IF t = 0
       THEN probabilities = <<>> /\ done = 0
       ELSE /\ probabilities # <<>>
            /\ done = t - 1
            /\ Len(parents_by_marble) = t - 1

\* A model whose steady-state probabilities raise reports that error
\* whatever the marbles are, before any position of the sequence is used.
SteadyStateErrorFirst ==
    (Decoded /\ steady_state_probabilities(hmm, 1).raised # NoError) =>
        /\ pc = "raised"
        /\ error = steady_state_probabilities(hmm, 1).raised
        /\ steady_calls = 1
        /\ consulted = <<>>

\* C14: the errors of viterbi come in the order of its computation.  A
\* model whose steady-state probabilities raise reports that error even if
\* the first or a later marble is no column; and for a model with a unique
\* steady state and marbles that are not negative, if the earliest marble not
\* less than m is at position t, the call fails exactly when it reaches
\* position t, with the steps of positions 0..t-1 completed and no position
\* after t used.
C14_ErrorsInOrder ==
    /\ SteadyStateErrorFirst
    /\ (/\ Decoded
        /\ Multiplicity(hmm.transition_matrix) = 1
        /\ NonNegativeMarbles
        /\ NoColumn # {}) => FailedAt(Earliest(NoColumn))

\* What does hold of the order: the same statement for the models with one
\* row of sampling probabilities per bag, with a marble that is no index
\* of a column, below -m or not less than m, in place of a marble not less
\* than m.
C14_ErrorsInOrderOfDecodable ==
    /\ SteadyStateErrorFirst
    /\ (Decoded /\ Decodable /\ NoColumn # {}) => FailedAt(Earliest(NoColumn))


====
